---- MODULE Spec2Model ----
(***************************************************************************)
(* Model of src/script.js: the trip-order form (per-option date ranges,    *)
(* chargeable nights, validation, live summary, submission by fetch).      *)
(*                                                                         *)
(* Time.  A JavaScript Date wraps an instant; the model writes it <<t>>    *)
(* with t in HOURS since 2025-12-31T00:00Z (every zone modelled has a      *)
(* whole-hour offset, so every instant the program handles is a whole      *)
(* hour and Math.floor(ms / 86400000) = t \div 24).  null is <<>>.         *)
(* A calendar day is its day-of-year in 2026 (1 = Jan 1, 256 = Sep 13);    *)
(* 0 is Dec 31 2025 and 366 is Jan 1 2027.                                 *)
(***************************************************************************)
EXTENDS Integers, Sequences, FiniteSets, TLC

\* ------------------------------------------------------------------------
\* Bounds of the model
\* ------------------------------------------------------------------------
\* days explored on each side of every anchor day by the pure-function runs
DayMargin == 3
\* longest range, in days between its ends, handed to a direct call
MaxSpan == 30
\* how many of PickCandidates a date picker emits
MaxPickRanges == 1
\* cap on requests in flight (the guard of the dispatching submit)
MaxInFlight == 2

\* ------------------------------------------------------------------------
\* The client's time zone (environment of Date)
\* ------------------------------------------------------------------------
\* std: UTC offset in hours; daylight time is in force at the local midnight
\* of day n iff dstStart < n <= dstEnd (the switch happens after midnight)
Zones ==
  { [name |-> "UTC",              std |-> 0,  dstStart |-> 0,  dstEnd |-> 0],
    [name |-> "Europe/Stockholm", std |-> 1,  dstStart |-> 88, dstEnd |-> 298],
    [name |-> "America/New_York", std |-> -5, dstStart |-> 67, dstEnd |-> 305] }

null == <<>>

UtcOffset(n, z) == z.std + (IF z.dstStart < n /\ n <= z.dstEnd THEN 1 ELSE 0)

\* the instant of local midnight of calendar day n
LocalMidnight(n, z) == 24 * n - UtcOffset(n, z)

\* days before the first of each month of 2026, indexed by month + 1
CumDays == <<0, 31, 59, 90, 120, 151, 181, 212, 243, 273, 304, 334, 365>>

\* new Date(2026, month, day): month is 0-indexed, local midnight
NewDate(month, day, z) == << LocalMidnight(CumDays[month + 1] + day, z) >>

getTime(d) == d[1]

\* the local calendar day an instant falls on
LocalDay(t, z) ==
  CHOOSE n \in {(t \div 24) - 1, t \div 24, (t \div 24) + 1} :
    LocalMidnight(n, z) <= t /\ t < LocalMidnight(n + 1, z)

\* <<year, month, day>> of a calendar day (month 1-indexed as printed)
CivilDate(n) ==
  IF n <= 0 THEN <<2025, 12, 31 + n>>
  ELSE IF n > 365 THEN <<2027, 1, n - 365>>
  ELSE LET m == CHOOSE k \in 1..12 : CumDays[k] < n /\ n <= CumDays[k + 1]
       IN  <<2026, m, n - CumDays[m]>>

\* d.toISOString().slice(0, 10): the UTC calendar date of the instant
toISODate(d) == CivilDate(getTime(d) \div 24)

\* ------------------------------------------------------------------------
\* Constants of the program
\* ------------------------------------------------------------------------
PER_NIGHT_OPTION_IDS ==
  <<"companion", "pre-post-night", "superior-room", "superior-terrace">>

OPTIONS ==
  [id \in {PER_NIGHT_OPTION_IDS[i] : i \in 1..Len(PER_NIGHT_OPTION_IDS)} |->
     CASE id = "companion"        -> [id |-> id, name |-> "Companion rate", pricePerNight |-> 425]
       [] id = "pre-post-night"   -> [id |-> id, name |-> "Pre- or post-night", pricePerNight |-> 360]
       [] id = "superior-room"    -> [id |-> id, name |-> "Room upgrade - Superior Room", pricePerNight |-> 80]
       [] id = "superior-terrace" -> [id |-> id, name |-> "Room upgrade - Superior Room with terrace", pricePerNight |-> 280]]

INCLUDED_NIGHTS(z) == [from |-> NewDate(8, 13, z), to |-> NewDate(8, 17, z)]

INCLUDED_NIGHT_DATES(z) == { NewDate(8, day, z) : day \in 13..17 }

\* ------------------------------------------------------------------------
\* Helpers
\* ------------------------------------------------------------------------
countNights(from, to) ==
  IF from = null \/ to = null THEN 0
  ELSE IF getTime(to) < getTime(from) THEN 0
  ELSE ((getTime(to) - getTime(from)) \div 24) + 1

isIncludedNight(d, z) ==
  /\ getTime(d) >= getTime(INCLUDED_NIGHTS(z).from)
  /\ getTime(d) <= getTime(INCLUDED_NIGHTS(z).to)

\* the while loop of getChargeableNights: day is the local calendar day of d,
\* which setHours(0,0,0,0) puts at local midnight and setDate(getDate() + 1)
\* moves to the next local midnight
RECURSIVE ScanNights(_, _, _, _)
ScanNights(day, end, n, z) ==
  IF LocalMidnight(day, z) <= end
  THEN ScanNights(day + 1, end,
                  IF isIncludedNight(<<LocalMidnight(day, z)>>, z) THEN n ELSE n + 1, z)
  ELSE n

getChargeableNights(optionId, from, to, z) ==
  IF from = null \/ to = null THEN 0
  ELSE IF getTime(to) < getTime(from) THEN 0
  ELSE IF optionId = "pre-post-night"
       THEN ScanNights(LocalDay(getTime(from), z), getTime(to), 0, z)
       ELSE countNights(from, to)

\* ------------------------------------------------------------------------
\* Strings: a text value is a sequence of one-character strings
\* ------------------------------------------------------------------------
Whitespace == {" "}

RECURSIVE trimStart(_)
trimStart(s) ==
  IF s # <<>> /\ Head(s) \in Whitespace THEN trimStart(Tail(s)) ELSE s

RECURSIVE trimEnd(_)
trimEnd(s) ==
  IF s # <<>> /\ s[Len(s)] \in Whitespace THEN trimEnd(SubSeq(s, 1, Len(s) - 1)) ELSE s

\* String.prototype.trim
trim(s) == trimEnd(trimStart(s))

\* a run of one or more characters of [^\s@] from position a to position b
NoSpaceNoAt(s, a, b) ==
  a <= b /\ \A k \in a..b : s[k] \notin Whitespace /\ s[k] # "@"

\* ------------------------------------------------------------------------
\* Validation
\* ------------------------------------------------------------------------
\* /^[^\s@]+@[^\s@]+\.[^\s@]+$/.test(value.trim()); the empty string is falsy
isValidEmail(value) ==
  LET s == trim(value) IN
  /\ value # <<>>
  /\ \E i \in 1..Len(s) : \E j \in 1..Len(s) :
       /\ s[i] = "@" /\ s[j] = "."
       /\ NoSpaceNoAt(s, 1, i - 1)
       /\ NoSpaceNoAt(s, i + 1, j - 1)
       /\ NoSpaceNoAt(s, j + 1, Len(s))

\* the value updateSubmitButtonState assigns to submitBtn.disabled
updateSubmitButtonState(nameValue, emailValue) ==
  ~(trim(nameValue) # <<>> /\ isValidEmail(trim(emailValue)))

\* validateForm without its else-if branch on the email's format
validateForm_noFormatCheck(nameValue, emailValue) ==
  LET name  == trim(nameValue)
      email == trim(emailValue)
  IN  [ fullNameError |-> IF name = <<>> THEN "Please enter your full name." ELSE "",
        emailError    |-> IF email = <<>> THEN "Please enter your email address." ELSE "",
        valid         |-> name # <<>> /\ email # <<>> ]

validateForm(nameValue, emailValue) ==
  LET name  == trim(nameValue)
      email == trim(emailValue)
  IN  [ fullNameError |-> IF name = <<>> THEN "Please enter your full name." ELSE "",
        emailError    |-> IF email = <<>> THEN "Please enter your email address."
                          ELSE IF ~isValidEmail(email) THEN "Please enter a valid email address."
                          ELSE "",
        valid         |-> name # <<>> /\ email # <<>> /\ isValidEmail(email) ]

\* ------------------------------------------------------------------------
\* State
\* ------------------------------------------------------------------------
VARIABLES
  tz,                  \* the client's time zone (fixed for a session)
  fullNameValue,       \* fullNameInput.value
  emailValue,          \* emailInput.value
  checked,             \* ids of the .option-checkbox elements that are checked
  optionDateRanges,    \* optionId -> <<fromDate, toDate>> or null
  flatpickrInstances,  \* ids that own a live Flatpickr instance
  dateRangeHidden,     \* optionId -> hidden flag of its date-range container
  formHidden,          \* formSection.hidden
  confirmationHidden,  \* confirmationSection.hidden
  submitDisabled,      \* submitBtn.disabled
  submitText,          \* submitBtn.textContent
  applicationValue,    \* applicationInput.value: <<>> when empty, else <<payload>>
  fullNameError,       \* fullNameError.textContent (the 'invalid' class goes with it)
  emailError,          \* emailError.textContent
  summary,             \* the summary elements: hidden flags, lines, total, hint
  pending,             \* fetch requests dispatched and not yet settled
  lastEvent,           \* the handler that ran last
  call,                \* arguments of a direct call of the night helpers, or null
  ret                  \* results of that call, or null

vars == << tz, fullNameValue, emailValue, checked, optionDateRanges,
           flatpickrInstances, dateRangeHidden, formHidden, confirmationHidden,
           submitDisabled, submitText, applicationValue, fullNameError,
           emailError, summary, pending, lastEvent, call, ret >>

OptionIds == { PER_NIGHT_OPTION_IDS[i] : i \in 1..Len(PER_NIGHT_OPTION_IDS) }

\* the .option-checkbox elements of the form, in document order: the page
\* modelled offers an ordinary per-night option and the pre/post-night option
Checkboxes == << "companion", "pre-post-night" >>

CheckboxIds == { Checkboxes[i] : i \in 1..Len(Checkboxes) }

\* ------------------------------------------------------------------------
\* Per-option date pickers
\* ------------------------------------------------------------------------
\* flatpickrInstances after createFlatpickrForOption (a second call is a no-op)
createFlatpickrForOption(optionId, instances) ==
  IF optionId \in instances THEN instances ELSE instances \cup {optionId}

\* destroyFlatpickrForOption without its last line: the range is kept
destroyFlatpickrForOption_keepsRange(optionId, instances, ranges) ==
  [ instances |-> instances \ {optionId}, ranges |-> ranges ]

\* the instances and ranges after destroyFlatpickrForOption
destroyFlatpickrForOption(optionId, instances, ranges) ==
  [ instances |-> instances \ {optionId},
    ranges    |-> [ranges EXCEPT ![optionId] = null] ]

\* an onChange that stores the two dates of a full selection end first
onChange_endFirst(selectedDates) ==
  IF Len(selectedDates) = 2
  THEN << selectedDates[2], selectedDates[1] >>
  ELSE null

\* the value the onChange callback stores for the picker's selectedDates
onChange(selectedDates) ==
  IF Len(selectedDates) = 2 THEN selectedDates ELSE null

\* the checked boxes collected from the last one to the first
getSelectedOptionIds_reversed(chk) ==
  LET s == SelectSeq(Checkboxes, LAMBDA id : id \in chk)
  IN  [i \in 1..Len(s) |-> s[Len(s) + 1 - i]]

\* querySelectorAll('.option-checkbox:checked') in document order
getSelectedOptionIds(chk) ==
  SelectSeq(Checkboxes, LAMBDA id : id \in chk)

\* ------------------------------------------------------------------------
\* Live order summary
\* ------------------------------------------------------------------------
RECURSIVE SumTotals(_)
SumTotals(items) ==
  IF items = <<>> THEN 0 ELSE Head(items).total + SumTotals(Tail(items))

\* a summary line charging every night of the range, included ones too
SummaryLine_allNights(id, range, z) ==
  LET opt == OPTIONS[id]
      chargeableNights ==
        IF range # null THEN countNights(range[1], range[2]) ELSE 0
      lineTotal == opt.pricePerNight * chargeableNights
  IN  [ name   |-> opt.name,
        label  |-> IF chargeableNights > 0 THEN "night(s)" ELSE "Select dates",
        nights |-> chargeableNights,
        total  |-> lineTotal ]

\* one <li> of the summary: every catalog entry has a pricePerNight
SummaryLine(id, range, z) ==
  LET opt == OPTIONS[id]
      chargeableNights ==
        IF range # null THEN getChargeableNights(id, range[1], range[2], z) ELSE 0
      lineTotal == opt.pricePerNight * chargeableNights
  IN  [ name   |-> opt.name,
        label  |-> IF chargeableNights > 0 THEN "night(s)" ELSE "Select dates",
        nights |-> chargeableNights,
        total  |-> lineTotal ]

\* updateOrderSummary falling back to the empty state whenever the total is 0
updateOrderSummary_emptyOnZero(chk, ranges, prev, z) ==
  LET optionIds == getSelectedOptionIds(chk)
      lines == [i \in 1..Len(optionIds) |->
                  SummaryLine(optionIds[i], ranges[optionIds[i]], z)]
  IN  IF SumTotals(lines) = 0
      THEN [prev EXCEPT !.emptyHidden = FALSE, !.listHidden = TRUE, !.totalHidden = TRUE]
      ELSE [ emptyHidden |-> TRUE,
             listHidden  |-> FALSE,
             totalHidden |-> FALSE,
             lines       |-> lines,
             totalAmount |-> SumTotals(lines),
             hint        |-> \E i \in 1..Len(optionIds) : ranges[optionIds[i]] = null ]

\* the summary elements after updateOrderSummary; with nothing selected the
\* function returns before it touches the list's content or the total's text
updateOrderSummary(chk, ranges, prev, z) ==
  LET optionIds == getSelectedOptionIds(chk) IN
  IF Len(optionIds) = 0
  THEN [prev EXCEPT !.emptyHidden = FALSE, !.listHidden = TRUE, !.totalHidden = TRUE]
  ELSE LET lines == [i \in 1..Len(optionIds) |->
                       SummaryLine(optionIds[i], ranges[optionIds[i]], z)]
       IN  [ emptyHidden |-> TRUE,
             listHidden  |-> FALSE,
             totalHidden |-> FALSE,
             lines       |-> lines,
             totalAmount |-> SumTotals(lines),
             hint        |-> \E i \in 1..Len(optionIds) : ranges[optionIds[i]] = null ]

\* ------------------------------------------------------------------------
\* Application object
\* ------------------------------------------------------------------------
\* the options[] callback charging one night when no range is stored
BuildOption_oneNightDefault(id, range, z) ==
  LET opt    == OPTIONS[id]
      nights == IF range # null /\ range[1] # null /\ range[2] # null
                THEN getChargeableNights(id, range[1], range[2], z) ELSE 1
  IN  [ id            |-> opt.id,
        name          |-> opt.name,
        pricePerNight |-> opt.pricePerNight,
        nights        |-> nights,
        dateFrom      |-> IF range # null /\ range[1] # null THEN toISODate(range[1]) ELSE null,
        dateTo        |-> IF range # null /\ range[2] # null THEN toISODate(range[2]) ELSE null,
        total         |-> opt.pricePerNight * nights ]

\* the options[] callback with total set to the nightly price, not multiplied
BuildOption_priceAsTotal(id, range, z) ==
  LET opt    == OPTIONS[id]
      nights == IF range # null /\ range[1] # null /\ range[2] # null
                THEN getChargeableNights(id, range[1], range[2], z) ELSE 0
  IN  [ id            |-> opt.id,
        name          |-> opt.name,
        pricePerNight |-> opt.pricePerNight,
        nights        |-> nights,
        dateFrom      |-> IF range # null /\ range[1] # null THEN toISODate(range[1]) ELSE null,
        dateTo        |-> IF range # null /\ range[2] # null THEN toISODate(range[2]) ELSE null,
        total         |-> opt.pricePerNight ]

\* one entry of options[] (the callback of optionIds.map)
BuildOption(id, range, z) ==
  LET opt    == OPTIONS[id]
      nights == IF range # null /\ range[1] # null /\ range[2] # null
                THEN getChargeableNights(id, range[1], range[2], z) ELSE 0
  IN  [ id            |-> opt.id,
        name          |-> opt.name,
        pricePerNight |-> opt.pricePerNight,
        nights        |-> nights,
        dateFrom      |-> IF range # null /\ range[1] # null THEN toISODate(range[1]) ELSE null,
        dateTo        |-> IF range # null /\ range[2] # null THEN toISODate(range[2]) ELSE null,
        total         |-> opt.pricePerNight * nights ]

\* id (a fresh UUID) and submittedAt (the clock) are values of the environment
\* and are left out of the record
buildApplicationObject(chk, ranges, nameValue, emailAddr, z) ==
  LET optionIds == getSelectedOptionIds(chk)
      options   == [i \in 1..Len(optionIds) |->
                      BuildOption(optionIds[i], ranges[optionIds[i]], z)]
  IN  [ customer |-> [fullName |-> trim(nameValue), email |-> trim(emailAddr)],
        options  |-> options,
        summary  |-> [totalAmount |-> SumTotals(options), currency |-> "USD"] ]

\* showConfirmation without its first line: the form section stays visible
showConfirmation_formStays == [formHidden |-> FALSE, confirmationHidden |-> FALSE]

\* the view flags after showConfirmation
showConfirmation == [formHidden |-> TRUE, confirmationHidden |-> FALSE]

\* ------------------------------------------------------------------------
\* Inputs
\* ------------------------------------------------------------------------
\* what the user types into the name field and into the email field
NameInputs  == { <<>>, <<" ">>, <<"A">> }
EmailInputs == { <<>>, <<"a", "@", "b">>, <<"a", "@", "b", ".", "c">> }

\* ranges the user picks, as <<first day, last day>>: Sep 10-20, Sep 13-17
\* (the included window), Mar 28-30, Sep 18-18
PickCandidates == << <<253, 263>>, <<256, 260>>, <<87, 89>>, <<261, 261>> >>

PickRanges ==
  { PickCandidates[i] :
      i \in 1..(IF MaxPickRanges < Len(PickCandidates) THEN MaxPickRanges
                ELSE Len(PickCandidates)) }

\* opts.disable: the days the picker of an option refuses
DisabledDates(optionId, z) ==
  IF optionId = "pre-post-night" THEN INCLUDED_NIGHT_DATES(z) ELSE {}

\* selectedDates as Flatpickr hands them to onChange in range mode: one date
\* after the first click, two dates in ascending order after the second, each
\* the local midnight of an enabled day
SelectedDates(optionId, z) ==
  LET enabled(n) == << LocalMidnight(n, z) >> \notin DisabledDates(optionId, z) IN
  { << <<LocalMidnight(r[1], z)>> >> : r \in {q \in PickRanges : enabled(q[1])} }
    \cup
  { << <<LocalMidnight(r[1], z)>>, <<LocalMidnight(r[2], z)>> >> :
      r \in {q \in PickRanges : enabled(q[1]) /\ enabled(q[2])} }

\* days the direct calls of the night helpers are tried on: the year's ends,
\* the daylight-time switches and the included window, each with a margin
AnchorDays == {1, 67, 88, 256, 260, 298, 305, 365}

ExploredDays ==
  { n \in 1..365 : \E a \in AnchorDays : n - a <= DayMargin /\ a - n <= DayMargin }

\* ------------------------------------------------------------------------
\* Initial state: the page as loaded and the script run to its end
\* ------------------------------------------------------------------------
PageLoaded ==
  /\ fullNameValue = <<>>
  /\ emailValue = <<>>
  /\ checked = {}
  /\ optionDateRanges = [id \in OptionIds |-> null]
  /\ flatpickrInstances = {}
  /\ dateRangeHidden = [id \in OptionIds |-> TRUE]
  /\ formHidden = FALSE
  /\ confirmationHidden = TRUE
  /\ submitDisabled = updateSubmitButtonState(<<>>, <<>>)
  /\ submitText = "Submit request"
  /\ applicationValue = <<>>
  /\ fullNameError = ""
  /\ emailError = ""
  /\ summary = updateOrderSummary({}, [id \in OptionIds |-> null],
                 [ emptyHidden |-> FALSE, listHidden |-> FALSE, totalHidden |-> FALSE,
                   lines |-> <<>>, totalAmount |-> 0, hint |-> FALSE ], tz)
  /\ pending = 0
  /\ lastEvent = "load"

\* the zone of the session the event handlers are explored in
SessionZones == { z \in Zones : z.name = "Europe/Stockholm" }

Init ==
  /\ tz \in SessionZones
  /\ PageLoaded
  /\ call = null
  /\ ret = null

\* ------------------------------------------------------------------------
\* Event handlers
\* ------------------------------------------------------------------------
\* 'input' on the name field
EditName(v) ==
  /\ ~formHidden
  /\ v # fullNameValue
  /\ fullNameValue' = v
  /\ fullNameError' = ""
  /\ submitDisabled' = updateSubmitButtonState(v, emailValue)
  /\ lastEvent' = "edit-name"
  /\ UNCHANGED << tz, emailValue, checked, optionDateRanges, flatpickrInstances,
                  dateRangeHidden, formHidden, confirmationHidden, submitText,
                  applicationValue, emailError, summary, pending, call, ret >>

\* 'input' on the email field
EditEmail(v) ==
  /\ ~formHidden
  /\ v # emailValue
  /\ emailValue' = v
  /\ emailError' = ""
  /\ submitDisabled' = updateSubmitButtonState(fullNameValue, v)
  /\ lastEvent' = "edit-email"
  /\ UNCHANGED << tz, fullNameValue, checked, optionDateRanges, flatpickrInstances,
                  dateRangeHidden, formHidden, confirmationHidden, submitText,
                  applicationValue, fullNameError, summary, pending, call, ret >>

\* toggleOptionDateRange with an else branch that only hides the container
toggleOptionDateRange_hideOnly(optionId, nowChecked, instances, ranges) ==
  IF nowChecked
  THEN [ hidden |-> FALSE,
         instances |-> createFlatpickrForOption(optionId, instances),
         ranges |-> ranges ]
  ELSE [ hidden |-> TRUE, instances |-> instances, ranges |-> ranges ]

\* the state of the pickers after toggleOptionDateRange, before its summary
toggleOptionDateRange(optionId, nowChecked, instances, ranges) ==
  IF nowChecked
  THEN [ hidden |-> FALSE,
         instances |-> createFlatpickrForOption(optionId, instances),
         ranges |-> ranges ]
  ELSE [ hidden |-> TRUE,
         instances |-> destroyFlatpickrForOption(optionId, instances, ranges).instances,
         ranges |-> destroyFlatpickrForOption(optionId, instances, ranges).ranges ]

\* 'change' on the checkbox of an option
ToggleOption(id) ==
  /\ ~formHidden
  /\ LET nowChecked == id \notin checked
         chk == IF nowChecked THEN checked \cup {id} ELSE checked \ {id}
         t   == toggleOptionDateRange(id, nowChecked, flatpickrInstances, optionDateRanges)
     IN  /\ checked' = chk
         /\ dateRangeHidden' = [dateRangeHidden EXCEPT ![id] = t.hidden]
         /\ flatpickrInstances' = t.instances
         /\ optionDateRanges' = t.ranges
         /\ summary' = updateOrderSummary(chk, t.ranges, summary, tz)
  /\ lastEvent' = "toggle"
  /\ UNCHANGED << tz, fullNameValue, emailValue, formHidden, confirmationHidden,
                  submitDisabled, submitText, applicationValue, fullNameError,
                  emailError, pending, call, ret >>

\* the picker of an option reports a change of its selected dates
PickDates(id, selectedDates) ==
  /\ ~formHidden
  /\ id \in flatpickrInstances
  /\ ~dateRangeHidden[id]
  /\ optionDateRanges' = [optionDateRanges EXCEPT ![id] = onChange(selectedDates)]
  /\ summary' = updateOrderSummary(checked, optionDateRanges', summary, tz)
  /\ lastEvent' = "pick"
  /\ UNCHANGED << tz, fullNameValue, emailValue, checked, flatpickrInstances,
                  dateRangeHidden, formHidden, confirmationHidden, submitDisabled,
                  submitText, applicationValue, fullNameError, emailError, pending,
                  call, ret >>

\* 'submit' on the form.  The event is raised by the submit button or by
\* Enter in a field, both of which the browser refuses while the button is
\* disabled or the form section is hidden.  The handler validates, stores the
\* payload in the hidden field, disables the button and starts the fetch.
Submit ==
  /\ ~formHidden
  /\ ~submitDisabled
  /\ LET v == validateForm(fullNameValue, emailValue) IN
       /\ fullNameError' = v.fullNameError
       /\ emailError' = v.emailError
       /\ IF ~v.valid
          THEN /\ lastEvent' = "submit-rejected"
               /\ UNCHANGED << applicationValue, submitDisabled, submitText, pending >>
          ELSE /\ pending < MaxInFlight
               /\ applicationValue' =
                    << buildApplicationObject(checked, optionDateRanges,
                                              fullNameValue, emailValue, tz) >>
               /\ submitDisabled' = TRUE
               /\ submitText' = "Sending..."
               /\ pending' = pending + 1
               /\ lastEvent' = "submit-dispatched"
  /\ UNCHANGED << tz, fullNameValue, emailValue, checked, optionDateRanges,
                  flatpickrInstances, dateRangeHidden, formHidden,
                  confirmationHidden, summary, call, ret >>

\* what the transport can report: an ok or redirected response, any other
\* response, or a rejected fetch
Outcomes == {"ok", "not-ok", "fault"}

\* the then callback without its test of response.ok / response.redirected
onSettled_anyResponse(outcome, formH, confH) == showConfirmation

\* the view flags after the then / catch callbacks
onSettled(outcome, formH, confH) ==
  IF outcome = "ok" THEN showConfirmation
  ELSE [formHidden |-> formH, confirmationHidden |-> confH]

\* a finally callback that restores the label and leaves the button disabled
onFinally_labelOnly == [disabled |-> TRUE, text |-> "Submit request"]

\* the button after the finally callback
onFinally == [disabled |-> FALSE, text |-> "Submit request"]

\* a pending fetch settles: then or catch, and finally, run back to back as
\* microtasks, before any other event is handled
TransportSettles(outcome) ==
  /\ pending > 0
  /\ pending' = pending - 1
  /\ formHidden' = onSettled(outcome, formHidden, confirmationHidden).formHidden
  /\ confirmationHidden' = onSettled(outcome, formHidden, confirmationHidden).confirmationHidden
  /\ submitDisabled' = onFinally.disabled
  /\ submitText' = onFinally.text
  /\ lastEvent' = CASE outcome = "ok"     -> "response-ok"
                    [] outcome = "not-ok" -> "response-not-ok"
                    [] outcome = "fault"  -> "transport-fault"
  /\ UNCHANGED << tz, fullNameValue, emailValue, checked, optionDateRanges,
                  flatpickrInstances, dateRangeHidden, applicationValue,
                  fullNameError, emailError, summary, call, ret >>

\* a forEach that nulls the ranges and leaves the instances alone
RECURSIVE resetPickers_rangesOnly(_, _, _)
resetPickers_rangesOnly(ids, instances, ranges) ==
  IF ids = <<>> THEN [instances |-> instances, ranges |-> ranges]
  ELSE resetPickers_rangesOnly(Tail(ids), instances, [ranges EXCEPT ![Head(ids)] = null])

\* the ranges and instances after the forEach of the back-to-form handler
RECURSIVE resetPickers(_, _, _)
resetPickers(ids, instances, ranges) ==
  IF ids = <<>> THEN [instances |-> instances, ranges |-> ranges]
  ELSE LET cleared == [ranges EXCEPT ![Head(ids)] = null]
           d == destroyFlatpickrForOption(Head(ids), instances, cleared)
       IN  resetPickers(Tail(ids), d.instances, d.ranges)

\* 'click' on the back-to-form button of the confirmation section
BackToForm ==
  /\ ~confirmationHidden
  /\ confirmationHidden' = TRUE
  /\ formHidden' = FALSE
  /\ fullNameValue' = <<>>
  /\ emailValue' = <<>>
  /\ checked' = {}
  /\ applicationValue' = <<>>
  /\ fullNameError' = ""
  /\ emailError' = ""
  /\ LET r == resetPickers(PER_NIGHT_OPTION_IDS, flatpickrInstances, optionDateRanges) IN
       /\ optionDateRanges' = r.ranges
       /\ flatpickrInstances' = r.instances
       /\ summary' = updateOrderSummary({}, r.ranges, summary, tz)
  /\ dateRangeHidden' = [id \in OptionIds |-> TRUE]
  /\ submitDisabled' = updateSubmitButtonState(<<>>, <<>>)
  /\ lastEvent' = "back-to-form"
  /\ UNCHANGED << tz, submitText, pending, call, ret >>

Next ==
  \/ \E v \in NameInputs : EditName(v)
  \/ \E v \in EmailInputs : EditEmail(v)
  \/ \E id \in CheckboxIds : ToggleOption(id)
  \/ \E id \in CheckboxIds : \E sel \in SelectedDates(id, tz) : PickDates(id, sel)
  \/ Submit
  \/ \E o \in Outcomes : TransportSettles(o)
  \/ BackToForm

Spec == Init /\ [][Next]_vars

\* the transport settles every request it was handed
SpecLive == Spec /\ WF_vars(\E o \in Outcomes : TransportSettles(o))

\* ------------------------------------------------------------------------
\* Direct calls of the night helpers and of the options[] callback
\* ------------------------------------------------------------------------
NullableDates(z) == {null} \cup { << LocalMidnight(n, z) >> : n \in ExploredDays }

InitCall ==
  /\ tz \in Zones
  /\ PageLoaded
  /\ call \in { c \in [ optionId : OptionIds, from : NullableDates(tz), to : NullableDates(tz) ] :
                   \/ c.from = null
                   \/ c.to = null
                   \/ /\ getTime(c.to) - getTime(c.from) <= 24 * MaxSpan + 1
                      /\ getTime(c.from) - getTime(c.to) <= 24 * MaxSpan + 1 }
  /\ ret = null

Evaluate ==
  /\ call # null
  /\ ret = null
  /\ ret' = [ countNights      |-> countNights(call.from, call.to),
              chargeableNights |-> getChargeableNights(call.optionId, call.from, call.to, tz),
              option           |-> BuildOption(call.optionId, <<call.from, call.to>>, tz) ]
  /\ UNCHANGED << tz, fullNameValue, emailValue, checked, optionDateRanges,
                  flatpickrInstances, dateRangeHidden, formHidden, confirmationHidden,
                  submitDisabled, submitText, applicationValue, fullNameError,
                  emailError, summary, pending, lastEvent, call >>

NextCall == Evaluate

SpecCall == InitCall /\ [][NextCall]_vars

\* ------------------------------------------------------------------------
\* Properties of the submission controller (Spec, SpecLive)
\* ------------------------------------------------------------------------
SettledEvents == {"response-ok", "response-not-ok", "transport-fault"}
FailureEvents == {"response-not-ok", "transport-fault"}

\* C1: at most one submission request is outstanding at any time.
C1_AtMostOneInFlight == pending <= 1

\* C2: while a dispatched request has not settled, the submit control is
\* disabled, whatever the user edits, toggles or picks meanwhile.
C2_DisabledWhileSubmitting == pending > 0 => submitDisabled

\* C3 as stated: right after an affirmative response the confirmation is
\* shown, the form hidden, every date range null and no picker alive.
C3_SuccessClearsSelection ==
  lastEvent = "response-ok" =>
    /\ ~confirmationHidden
    /\ formHidden
    /\ \A id \in OptionIds : optionDateRanges[id] = null
    /\ flatpickrInstances = {}

\* C3 as amended: an affirmative response shows the confirmation and hides the
\* form and leaves the selection, the date ranges and the pickers as they
\* were; it is the back-to-form step that clears every range and destroys
\* every picker.
C3_SuccessSwitchesView ==
  [][ /\ lastEvent' = "response-ok" =>
          /\ confirmationHidden' = FALSE
          /\ formHidden' = TRUE
          /\ UNCHANGED << checked, optionDateRanges, flatpickrInstances >>
      /\ lastEvent' = "back-to-form" =>
          /\ \A id \in OptionIds : optionDateRanges'[id] = null
          /\ flatpickrInstances' = {} ]_vars

C3_Witness ==
  /\ lastEvent = "response-ok"
  /\ ~confirmationHidden
  /\ \E id \in OptionIds : optionDateRanges[id] # null /\ id \in flatpickrInstances

\* C4: a submission that ends in failure (a response that is neither ok nor a
\* redirect, or a transport fault) leaves the selected options, the date
\* ranges, the pickers, the name and email fields and the visible view as they
\* were; the button is enabled with its label restored.
C4_FailureKeepsSelection ==
  [][ lastEvent' \in FailureEvents =>
        /\ UNCHANGED << checked, optionDateRanges, flatpickrInstances,
                        dateRangeHidden, fullNameValue, emailValue, formHidden,
                        confirmationHidden, applicationValue, fullNameError,
                        emailError, summary >>
        /\ submitDisabled' = FALSE
        /\ submitText' = "Submit request" ]_vars

C4_Witness ==
  /\ lastEvent \in FailureEvents
  /\ ~formHidden
  /\ \E id \in checked : optionDateRanges[id] # null /\ id \in flatpickrInstances
  /\ trim(fullNameValue) # <<>>

\* C5: whenever a request settles (ok, not ok or fault) the submit control is
\* enabled and labelled 'Submit request'; and, the transport settling every
\* request, a button showing the sending label always gets back to that state.
C5_AlwaysReenabled ==
  /\ [](lastEvent \in SettledEvents =>
          ~submitDisabled /\ submitText = "Submit request")
  /\ (submitText = "Sending...") ~> (~submitDisabled /\ submitText = "Submit request")

C5_Witness ==
  /\ lastEvent = "transport-fault"
  /\ ~submitDisabled
  /\ submitText = "Submit request"

\* C6: a submit request made while the trimmed name is empty, or the trimmed
\* email is empty or not of the form local@domain.tld, starts no request,
\* stores no payload, leaves the selection, the ranges and the button's
\* disabled flag alone and puts a message on exactly the invalid fields.
C6_InvalidSubmitRejected ==
  [][ ( /\ lastEvent' \in {"submit-rejected", "submit-dispatched"}
        /\ \/ trim(fullNameValue) = <<>>
           \/ trim(emailValue) = <<>>
           \/ ~isValidEmail(trim(emailValue)) )
      => /\ UNCHANGED << pending, applicationValue, checked, optionDateRanges,
                         flatpickrInstances, submitDisabled >>
         /\ (fullNameError' # "") <=> (trim(fullNameValue) = <<>>)
         /\ (emailError' # "") <=>
              (trim(emailValue) = <<>> \/ ~isValidEmail(trim(emailValue))) ]_vars

C6_Witness ==
  /\ lastEvent = "submit-rejected"
  /\ trim(fullNameValue) # <<>>
  /\ fullNameError = ""
  /\ emailError = "Please enter a valid email address."
  /\ ~submitDisabled

\* C10: a stored date range is non-null only for an option that is selected
\* and per-night; a deselected option's range is null.
C10_RangeOnlyIfSelected ==
  \A id \in OptionIds :
    optionDateRanges[id] # null =>
      id \in checked /\ \E i \in 1..Len(PER_NIGHT_OPTION_IDS) : PER_NIGHT_OPTION_IDS[i] = id

\* the last selected option, which had a range, has just been deselected (the
\* hidden summary list still holds its priced line)
C10_Witness ==
  /\ lastEvent = "toggle"
  /\ checked = {}
  /\ Len(summary.lines) = 1
  /\ summary.lines[1].nights > 0
  /\ \A id \in OptionIds : optionDateRanges[id] = null

\* ------------------------------------------------------------------------
\* Properties of the night helpers and of the payload's dates (SpecCall)
\* ------------------------------------------------------------------------
\* the calendar day a date handed to a call stands for
CallDay(d) == LocalDay(getTime(d), tz)

\* Sep 13-17 2026 as calendar days
WindowDays == 256..260

\* the calendar days of from..to that lie outside the included window
DaysOutsideWindow(f, t) == Cardinality({ d \in f..t : d \notin WindowDays })

Evaluated == ret # null /\ call.from # null /\ call.to # null

\* C7: for 'pre-post-night' and calendar dates from <= to, getChargeableNights
\* is the number of days of from..to outside Sep 13-17 2026: 0 for the window
\* itself, countNights(from, to) for a range wholly before or after the
\* window, N for the window plus N days outside it, and 6 (total 2160) for
\* Sep 10-20.
C7_PrePostNights ==
  (Evaluated /\ call.optionId = "pre-post-night" /\ CallDay(call.from) <= CallDay(call.to)) =>
    LET f == CallDay(call.from)
        t == CallDay(call.to)
        n == ret.chargeableNights
    IN  /\ n = DaysOutsideWindow(f, t)
        /\ (f = 256 /\ t = 260) => n = 0
        /\ (t < 256 \/ f > 260) => n = ret.countNights
        /\ (f <= 256 /\ t >= 260) => n = (256 - f) + (t - 260)
        /\ (f = 253 /\ t = 263) => (n = 6 /\ ret.option.total = 2160)

\* what C7 says of getChargeableNights alone, without the comparison with
\* countNights: this part holds in every zone
C7_DayScanCountsOutsideWindow ==
  (Evaluated /\ call.optionId = "pre-post-night" /\ CallDay(call.from) <= CallDay(call.to)) =>
    /\ ret.chargeableNights = DaysOutsideWindow(CallDay(call.from), CallDay(call.to))
    /\ (CallDay(call.from) = 253 /\ CallDay(call.to) = 263) =>
         (ret.chargeableNights = 6 /\ ret.option.total = 2160)

\* C8: for every other per-night option getChargeableNights equals
\* countNights, which is (to - from in whole days) + 1 when both dates are
\* present and from <= to, and 0 when a date is absent or to < from.
C8_OtherOptionsCountAllNights ==
  (ret # null /\ call.optionId # "pre-post-night") =>
    /\ ret.chargeableNights = ret.countNights
    /\ ret.countNights =
         IF call.from # null /\ call.to # null /\ CallDay(call.from) <= CallDay(call.to)
         THEN (CallDay(call.to) - CallDay(call.from)) + 1
         ELSE 0

\* C9: the dateFrom and dateTo of a payload entry with a complete range are
\* the calendar dates of the two days picked, in every zone, and are null when
\* the option has no range.
C9_PayloadDatesAreThePickedDays ==
  ret # null =>
    /\ (call.from # null /\ call.to # null) =>
         /\ ret.option.dateFrom = CivilDate(CallDay(call.from))
         /\ ret.option.dateTo = CivilDate(CallDay(call.to))
    /\ (call.from = null /\ call.to = null) =>
         /\ ret.option.dateFrom = null
         /\ ret.option.dateTo = null

\* ------------------------------------------------------------------------
\* Properties of the payload, the selection and the summary (Spec)
\* ------------------------------------------------------------------------
\* the payload buildApplicationObject makes of the current state
CurrentPayload ==
  buildApplicationObject(checked, optionDateRanges, fullNameValue, emailValue, tz)

\* the sum of the total fields of the first n entries
RECURSIVE TotalOfFirst(_, _)
TotalOfFirst(entries, n) ==
  IF n = 0 THEN 0 ELSE entries[n].total + TotalOfFirst(entries, n - 1)

\* the nights getChargeableNights gives for the range now stored for id
NightsOfStoredRange(id) ==
  IF optionDateRanges[id] = null THEN 0
  ELSE getChargeableNights(id, optionDateRanges[id][1], optionDateRanges[id][2], tz)

\* C11: in any state the payload built has summary.totalAmount equal to the
\* sum of options[].total, and every entry has total = nights * pricePerNight
\* with nights computed from the option's stored range at build time; the
\* payload a dispatching submit stores is the one built from that state.
C11_PayloadTotalsAddUp ==
  LET p == CurrentPayload IN
  /\ p.summary.totalAmount = TotalOfFirst(p.options, Len(p.options))
  /\ \A i \in 1..Len(p.options) :
       /\ p.options[i].total = p.options[i].nights * OPTIONS[p.options[i].id].pricePerNight
       /\ p.options[i].nights = NightsOfStoredRange(p.options[i].id)
  /\ lastEvent = "submit-dispatched" => applicationValue = << p >>

C11_Witness ==
  /\ lastEvent = "submit-dispatched"
  /\ Len(applicationValue[1].options) = 2
  /\ applicationValue[1].options[1].total = 11 * 425
  /\ applicationValue[1].options[2].total = 6 * 360
  /\ applicationValue[1].summary.totalAmount = 6835

\* position of an option in the catalog's declaration
CatalogIndex(id) ==
  CHOOSE i \in 1..Len(PER_NIGHT_OPTION_IDS) : PER_NIGHT_OPTION_IDS[i] = id

\* s lists exactly the options of set, each once, in catalog order
InCatalogOrder(s, set) ==
  /\ { s[i] : i \in 1..Len(s) } = set
  /\ \A i \in 1..Len(s) : \A j \in 1..Len(s) :
       i < j => CatalogIndex(s[i]) < CatalogIndex(s[j])

C13_ExactlyOneView ==
  /\ formHidden # confirmationHidden
  /\ lastEvent = "response-ok" => (formHidden /\ ~confirmationHidden)
  /\ lastEvent = "back-to-form" => (~formHidden /\ confirmationHidden)

\* a success arrives after a reset: the hidden field, filled by every
\* dispatch, has been emptied by back-to-form since
C13_Witness ==
  /\ lastEvent = "response-ok"
  /\ applicationValue = <<>>
  /\ formHidden
  /\ ~confirmationHidden

\* C14: a date-picker instance exists for an option if and only if the option
\* is selected, and its date-range container is shown exactly then.
C14_PickerIffSelected ==
  /\ flatpickrInstances = checked
  /\ \A id \in CheckboxIds : dateRangeHidden[id] <=> id \notin checked

\* 'companion' was in the payload of an earlier submit and has been deselected
\* since, the other option staying selected with its picker
C14_Witness ==
  /\ lastEvent = "toggle"
  /\ checked = {"pre-post-night"}
  /\ flatpickrInstances = {"pre-post-night"}
  /\ applicationValue # <<>>
  /\ Len(applicationValue[1].options) = 2

FieldsValid ==
  /\ trim(fullNameValue) # <<>>
  /\ isValidEmail(trim(emailValue))

\* the summary shows the empty indicator and neither list nor total
SummaryEmptyState ==
  /\ ~summary.emptyHidden
  /\ summary.listHidden
  /\ summary.totalHidden

\* C16: a selected option without a complete range does not block submission:
\* a submit is rejected only for invalid fields; the dispatched payload's
\* entry for such an option has nights 0, total 0 and null dates, and the
\* summary shows a zero-priced "Select dates" line for it with the hint.
C16_MissingRangeIsZeroPriced ==
  /\ lastEvent = "submit-rejected" => ~FieldsValid
  /\ lastEvent = "submit-dispatched" =>
       /\ FieldsValid
       /\ Len(applicationValue[1].options) = Cardinality(checked)
       /\ \A i \in 1..Len(applicationValue[1].options) :
            LET o == applicationValue[1].options[i] IN
            optionDateRanges[o.id] = null =>
              /\ o.nights = 0
              /\ o.total = 0
              /\ o.dateFrom = null
              /\ o.dateTo = null
  /\ \A i \in 1..Len(getSelectedOptionIds(checked)) :
       optionDateRanges[getSelectedOptionIds(checked)[i]] = null =>
         /\ summary.lines[i].total = 0
         /\ summary.lines[i].nights = 0
         /\ summary.lines[i].label = "Select dates"
         /\ summary.hint

\* a request has been dispatched with 'companion' selected and no range
\* stored for it, the other option carrying a priced range
C16_Witness ==
  /\ lastEvent = "submit-dispatched"
  /\ checked = {"companion", "pre-post-night"}
  /\ optionDateRanges["companion"] = null
  /\ optionDateRanges["pre-post-night"] # null
  /\ applicationValue[1].options[1].id = "companion"
  /\ applicationValue[1].options[1].nights = 0
  /\ applicationValue[1].summary.totalAmount > 0
  /\ summary.hint

\* C17: the summary is in the empty state if and only if no option is
\* selected; with an option selected the empty indicator is hidden and the
\* list and the total are shown, also when the total is 0.
C17_EmptyStateIffNothingSelected ==
  /\ SummaryEmptyState <=> checked = {}
  /\ checked # {} =>
       /\ summary.emptyHidden
       /\ ~summary.listHidden
       /\ ~summary.totalHidden

\* an option is selected, the total is 0 and the total is shown
C17_Witness ==
  /\ lastEvent \in {"toggle", "pick"}
  /\ checked # {}
  /\ summary.totalAmount = 0
  /\ ~summary.totalHidden
  /\ summary.emptyHidden

\* C18: after back-to-form the form view is visible, nothing is selected,
\* every range is null, no picker instance exists, the hidden payload field
\* is empty, the field errors are cleared and the summary is in the empty
\* state.
C18_BackToFormResets ==
  lastEvent = "back-to-form" =>
    /\ ~formHidden
    /\ confirmationHidden
    /\ checked = {}
    /\ \A id \in OptionIds : optionDateRanges[id] = null
    /\ flatpickrInstances = {}
    /\ \A id \in CheckboxIds : dateRangeHidden[id]
    /\ applicationValue = <<>>
    /\ fullNameError = ""
    /\ emailError = ""
    /\ fullNameValue = <<>>
    /\ emailValue = <<>>
    /\ SummaryEmptyState

\* the reset came from a state with two options selected: the hidden list
\* still holds their two lines
C18_Witness ==
  /\ lastEvent = "back-to-form"
  /\ Len(summary.lines) = 2
  /\ summary.totalAmount > 0


\* C19: with at least one option selected the total the summary shows is the
\* totalAmount buildApplicationObject computes from the same state, and each
\* line's night count is the payload entry's nights.
C19_SummaryMatchesPayload ==
  checked # {} =>
    LET p == CurrentPayload IN
    /\ summary.totalAmount = p.summary.totalAmount
    /\ Len(summary.lines) = Len(p.options)
    /\ \A i \in 1..Len(p.options) :
         /\ summary.lines[i].nights = p.options[i].nights
         /\ summary.lines[i].total = p.options[i].total
         /\ summary.lines[i].name = p.options[i].name

\* both options carry the range 10-20 September: 11 nights for the companion,
\* 6 chargeable nights of pre/post accommodation
C19_Witness ==
  /\ lastEvent = "pick"
  /\ checked = {"companion", "pre-post-night"}
  /\ summary.totalAmount = 6835
  /\ summary.lines[1].nights = 11
  /\ summary.lines[2].nights = 6

\* C20: with no submission in flight the submit control is enabled if and
\* only if the trimmed name is non-empty and the trimmed email is valid, also
\* after a submission completes whose fields were edited while it was pending.
C20_EnabledIffFieldsValid ==
  pending = 0 => (~submitDisabled <=> FieldsValid)

====
